---------------------------- MODULE Spec2Model ----------------------------
(***************************************************************************)
(* A model of code/pre_processing.py: the archive reader                   *)
(* (read_zst_to_json), the Essure discussion extractor                     *)
(* (process_reddit_data) and the module-level driver loop.                 *)
(*                                                                         *)
(* Three specifications share the module:                                  *)
(*   SpecRead    one call of read_zst_to_json, line by line;               *)
(*   SpecExtract the body of process_reddit_data after the two reads,      *)
(*               statement by statement;                                   *)
(*   SpecDriver  the driver loop over the subreddit file pairs.            *)
(*                                                                         *)
(* Null stands for every pandas missing value (None, NaN, NaT): merge and  *)
(* drop_duplicates treat them alike.                                       *)
(***************************************************************************)
EXTENDS Integers, Sequences, FiniteSets, TLC

VARIABLES
    \* ---- read_zst_to_json
    archive,        \* the file at file_path: [fault, lines]
    rpc,            \* position in read_zst_to_json
    line_count,     \* enumerate(text_stream, 1): lines consumed so far
    data,           \* the list being built
    log,            \* what was printed, in order
    ret,            \* the returned list
    exc_out,        \* the exception that left the function ("none" if none)
    \* ---- process_reddit_data
    submissions_data,   \* what read_zst_to_json returned for the submissions
    comments_data,      \* what read_zst_to_json returned for the comments
    xpc,                \* position in process_reddit_data
    submissions_df,
    comments_df,
    essure_submissions,
    essure_comments,
    indexer_1,          \* the (left, right) row pairs pd.merge matched, Join A
    merged_df_1,
    indexer_2,          \* the same for Join B
    merged_df_2,
    full_df,            \* the returned table
    xexc,               \* the exception that left the function ("none" if none)
    \* ---- the driver loop
    dir_contents,       \* the archive behind each file name of the two folders
    submission_files,   \* os.listdir(submissions_dir), the .zst names
    comment_files,      \* os.listdir(comments_dir), the .zst names
    di,                 \* position of the for loop in submission_files
    dpc,                \* position of the script
    all_discussions,    \* the list of the tables of the pairs processed
    final_df,           \* the combined table
    output_files,       \* the files the script has written
    dexc                \* the exception that ended the script ("none" if none)

rvars == <<archive, rpc, line_count, data, log, ret, exc_out>>

xvars == <<submissions_data, comments_data, xpc, submissions_df, comments_df,
           essure_submissions, essure_comments, indexer_1, merged_df_1,
           indexer_2, merged_df_2, full_df, xexc>>

dvars == <<dir_contents, submission_files, comment_files, di, dpc,
           all_discussions, final_df, output_files, dexc>>

vars == <<rvars, xvars, dvars>>

\* ------------------------------------------------------------------ bounds

MaxLines == 3
MaxSubs == 2
MaxComs == 2
MaxPairs == 2

\* ------------------------------------------------------------------ values

\* Every cell value is a sequence of strings. A text is the sequence of its
\* pieces: "Essure", "essure", "ESSURE" (those letters), "w" (any other run
\* of word characters) and " " (any run of non-word characters).
Null == <<"NaN">>

\* Print progress every 1000 records.
ProgressEvery == 1000

submissions_cols == {"id", "name", "created_utc", "title", "selftext", "subreddit"}
comments_cols == {"id", "subreddit", "created_utc", "body", "link_id", "parent_id"}

Without(rec, key) == [k \in DOMAIN rec \ {key} |-> rec[k]]

\* The JSON objects of the archives: Reddit submissions and comments, with
\* one field (author) the extractor does not keep.
Submission(id, name, title, selftext) ==
    [id |-> <<id>>, name |-> name, created_utc |-> <<"1600000000">>,
     title |-> title, selftext |-> selftext, subreddit |-> <<"r">>,
     author |-> <<"u">>]

Comment(id, link_id, body) ==
    [id |-> <<id>>, subreddit |-> <<"r">>, created_utc |-> <<"1600000100">>,
     body |-> body, link_id |-> link_id, parent_id |-> link_id,
     author |-> <<"u">>]

SubmissionLines == {"S1", "S2", "S3", "S4", "S5"}
CommentLines == {"C1", "C2", "C3", "C4", "C5"}
GoodLines == SubmissionLines \cup CommentLines

\* The object each well-formed line holds. A field is a text, null (S4's
\* title, C4's body) or absent (S4's selftext, S5's name, C5's link_id); in
\* every list of these that has a text column at all, the column holds a
\* text or only nulls, so that pandas keeps it a column of objects.
Dict(line) ==
    CASE line = "S1" -> Submission("s1", <<"t3_a">>, <<"essure", " ", "w">>, <<>>)
      [] line = "S2" -> Submission("s2", <<"t3_b">>, <<"w">>, <<"w", " ", "Essure">>)
      [] line = "S3" -> Submission("s3", <<"t3_b">>, <<"ESSURE", " ", "w">>, <<"essure", "w">>)
      [] line = "S4" -> Without(Submission("s4", <<"t3_a">>, Null, <<>>), "selftext")
      [] line = "S5" -> Without(Submission("s5", Null, <<"Essure">>, <<>>), "name")
      [] line = "C1" -> Comment("c1", <<"t3_a">>, <<"essure">>)
      [] line = "C2" -> Comment("c2", <<"t3_a">>, <<"w">>)
      [] line = "C3" -> Comment("c3", <<"t3_c">>, <<"Essure", " ", "w">>)
      [] line = "C4" -> Comment("c4", <<"t3_b">>, Null)
      [] line = "C5" -> Without(Comment("c5", Null, <<"w", " ", "essure">>), "link_id")

\* ------------------------------------------------------- read_zst_to_json

\* The lines an archive may hold: well-formed JSON objects; "malformed",
\* text json.loads rejects with JSONDecodeError; "deep", text json.loads
\* gives up on with RecursionError (nesting beyond the interpreter's limit);
\* "badutf8", bytes the TextIOWrapper cannot decode.
BadLines == {"malformed", "deep", "badutf8"}
ReadLines == {"S1", "C2"} \cup BadLines

\* fault: "none", "missing" (open() raises) or "corrupt" (the zstd frame
\* cannot be decompressed, the first read raises).
Faults == {"none", "missing", "corrupt"}

SeqsUpTo(S, n) == UNION {[1..k -> S] : k \in 0..n}

Archives == [fault : Faults, lines : SeqsUpTo(ReadLines, MaxLines)]

\* Python's exception classes, each with its base class.
ExcBase(c) ==
    CASE c = "JSONDecodeError"    -> "ValueError"
      [] c = "UnicodeDecodeError" -> "ValueError"
      [] c = "ValueError"         -> "Exception"
      [] c = "RecursionError"     -> "RuntimeError"
      [] c = "RuntimeError"       -> "Exception"
      [] c = "FileNotFoundError"  -> "OSError"
      [] c = "OSError"            -> "Exception"
      [] c = "ZstdError"          -> "Exception"
      [] c = "KeyError"           -> "LookupError"
      [] c = "LookupError"        -> "Exception"
      [] c = "Exception"          -> "BaseException"
      [] OTHER                    -> "object"

RECURSIVE IsSubclass(_, _)
IsSubclass(c, base) ==
    IF c = base THEN TRUE
    ELSE IF c = "object" THEN FALSE
    ELSE IsSubclass(ExcBase(c), base)

\* except json.JSONDecodeError as e:   (the handler inside the loop)
InnerCatches(e) == IsSubclass(e, "JSONDecodeError")

\* A reader whose outer handler only expects I/O errors.
OuterCatchesOSErrorOnly(e) == IsSubclass(e, "OSError")

\* except Exception as e:              (the handler around the whole read)
OuterCatches(e) == IsSubclass(e, "Exception")

\* open(file_path, 'rb')
OpenFile(a) == IF a.fault = "missing" THEN "FileNotFoundError" ELSE "none"

\* The k-th step of the iteration over text_stream: what next() raises. (The
\* decoder may meet the bad bytes of line k while reading ahead, before the
\* lines in front of it are handed out; the call ends the same way.)
StreamNext(a, k) ==
    IF a.fault = "corrupt" THEN "ZstdError"
    ELSE IF k <= Len(a.lines) /\ a.lines[k] = "badutf8" THEN "UnicodeDecodeError"
    ELSE "none"

\* json.loads(line.strip()): the parsed object, or the exception raised.
JsonLoads(line) ==
    CASE line \in GoodLines  -> [exc |-> "none", obj |-> Dict(line)]
      [] line = "malformed"  -> [exc |-> "JSONDecodeError", obj |-> Null]
      [] line = "deep"       -> [exc |-> "RecursionError", obj |-> Null]
      [] OTHER               -> [exc |-> "JSONDecodeError", obj |-> Null]

\* One print: what it reports, the number in it, the exception in it.
LogEntry(kind, n, e) == [kind |-> kind, n |-> n, exc |-> e]

\* The state of one call, as a record, and the steps on it.
RState == [pc |-> rpc, line_count |-> line_count, data |-> data,
           log |-> log, ret |-> ret, exc_out |-> exc_out]

RInit == [pc |-> "start", line_count |-> 0, data |-> <<>>,
          log |-> <<>>, ret |-> <<>>, exc_out |-> "none"]

\* An exception e reaches the outer try: handled (log, return []) or not.
OuterHandle(r, e) ==
    IF OuterCatches(e)
    THEN [r EXCEPT !.pc = "returned", !.ret = <<>>,
                   !.log = Append(r.log, LogEntry("file_error", 0, e))]
    ELSE [r EXCEPT !.pc = "raised", !.exc_out = e]

\* data = []; print; open the file and the stream reader.
OpenStep(a, r) ==
    LET r1 == [r EXCEPT !.data = <<>>, !.log = Append(r.log, LogEntry("processing", 0, "none"))]
    IN  IF OpenFile(a) # "none"
        THEN OuterHandle(r1, OpenFile(a))
        ELSE [r1 EXCEPT !.pc = "iter"]

\* The body of the for loop for line number n.
LineBody(r, n, line) ==
    LET p == JsonLoads(line)
    IN  IF p.exc = "none"
        THEN LET d == Append(r.data, p.obj)
             IN  [r EXCEPT !.line_count = n, !.data = d,
                           !.log = IF Len(d) % ProgressEvery = 0
                                   THEN Append(r.log, LogEntry("progress", Len(d), "none"))
                                   ELSE r.log]
        ELSE IF InnerCatches(p.exc)
        THEN [r EXCEPT !.line_count = n,
                       !.log = Append(r.log, LogEntry("json_error", n, p.exc))]
        ELSE OuterHandle([r EXCEPT !.line_count = n], p.exc)

\* One round of the for loop: fetch the next line and run the body, or
\* leave the loop, print the total and return data.
IterStep(a, r) ==
    LET n == r.line_count + 1
        e == StreamNext(a, n)
    IN  IF e # "none" THEN OuterHandle(r, e)
        ELSE IF n > Len(a.lines)
        THEN [r EXCEPT !.pc = "returned", !.ret = r.data,
                       !.log = Append(r.log, LogEntry("total", Len(r.data), "none"))]
        ELSE LineBody(r, n, a.lines[n])

RECURSIVE RunRead(_, _)
RunRead(a, r) ==
    CASE r.pc = "start" -> RunRead(a, OpenStep(a, r))
      [] r.pc = "iter"  -> RunRead(a, IterStep(a, r))
      [] OTHER          -> r

\* read_zst_to_json(file_path), start to end.
ReadZstToJson(a) == RunRead(a, RInit)

\* ---------------------------------------------------- process_reddit_data

\* pd.DataFrame(list of dicts): the columns are the keys of all the dicts,
\* and a dict without a key has a missing value there.
DataFrame(records) ==
    LET cols == UNION {DOMAIN records[i] : i \in 1..Len(records)}
    IN  [columns |-> cols,
         rows |-> [i \in 1..Len(records) |->
                     [c \in cols |-> IF c \in DOMAIN records[i]
                                     THEN records[i][c] ELSE Null]]]

EmptyFrame == [columns |-> {}, rows |-> <<>>]

\* A projection that keeps the columns the frame has and skips the others.
GetColumnsLenient(df, cols) ==
    [exc |-> "none",
     df |-> [columns |-> cols \cap df.columns,
             rows |-> [i \in 1..Len(df.rows) |->
                         [c \in cols \cap df.columns |-> df.rows[i][c]]]]]

\* df[cols]: KeyError unless the frame has every one of the columns.
GetColumns(df, cols) ==
    IF cols \subseteq df.columns
    THEN [exc |-> "none",
          df |-> [columns |-> cols,
                  rows |-> [i \in 1..Len(df.rows) |->
                              [c \in cols |-> df.rows[i][c]]]]]
    ELSE [exc |-> "KeyError", df |-> EmptyFrame]

\* pd.to_datetime(v, unit='s')
ToDatetime(v) == IF v = Null THEN Null ELSE <<"ts">> \o v

ConvertCreated(df) ==
    [df EXCEPT !.rows = [i \in 1..Len(df.rows) |->
        [df.rows[i] EXCEPT !.created_utc = ToDatetime(@)]]]

\* \b around the piece at i: no word character on either side of it.
IsWordPiece(t) == t # " "

WordAt(text, i, w) ==
    /\ text[i] = w
    /\ (i = 1 \/ ~IsWordPiece(text[i - 1]))
    /\ (i = Len(text) \/ ~IsWordPiece(text[i + 1]))

\* 'Essure' searched as plain text, as the first assignment of
\* essure_submissions (lines 79-82, overwritten at 84-87) does.
PlainEssure(text) == \E i \in 1..Len(text) : text[i] = "Essure"

\* essure_pattern = r'\bEssure\b|\bessure\b'
essure_pattern(text) ==
    \E i \in 1..Len(text) : WordAt(text, i, "Essure") \/ WordAt(text, i, "essure")

\* Series.str.contains(essure_pattern, regex=True, case=True, na=False)
StrContains(v) == IF v = Null THEN FALSE ELSE essure_pattern(v)

SubmissionMatches(row) == StrContains(row.title) \/ StrContains(row.selftext)
CommentMatches(row) == StrContains(row.body)

\* submissions_df[mask], comments_df[mask]: the rows the mask is true for.
FilterSubmissions(df) == [df EXCEPT !.rows = SelectSeq(df.rows, SubmissionMatches)]
FilterComments(df) == [df EXCEPT !.rows = SelectSeq(df.rows, CommentMatches)]

\* The left side of Join A if the unfiltered submissions were merged.
JoinALeftUnfiltered(all, matched) == all

\* The left side of Join A: essure_submissions.
JoinALeft(all, matched) == matched

\* The left side of Join B: essure_comments.
JoinBLeft(all, matched) == matched

\* The comments frame taken for the right side of Join A when only the
\* matching comments are joined.
JoinARightMatchedOnly(all, matched) == matched

\* The right side of Join A: comments_df, every comment.
JoinARight(all, matched) == all

\* The submissions frame taken for the right side of Join B when only the
\* matching submissions are joined.
JoinBRightMatchedOnly(all, matched) == matched

\* The right side of Join B: submissions_df, every submission.
JoinBRight(all, matched) == all

\* how='left': for each left row in turn, the right rows with an equal key,
\* or one pair with no right row (0). Missing keys are equal to each other.
RECURSIVE LeftJoinIndexer(_, _, _, _, _)
LeftJoinIndexer(left, right, left_on, right_on, i) ==
    IF i > Len(left) THEN <<>>
    ELSE LET js == SelectSeq([j \in 1..Len(right) |-> j],
                             LAMBDA j : right[j][right_on] = left[i][left_on])
             here == IF js = <<>> THEN << <<i, 0>> >>
                     ELSE [k \in 1..Len(js) |-> <<i, js[k]>>]
         IN  here \o LeftJoinIndexer(left, right, left_on, right_on, i + 1)

\* The name a column gets in the merged frame: a name both sides have takes
\* the side's suffix.
LeftName(c, rcols) == IF c \in rcols THEN c \o "_x" ELSE c
RightName(c, lcols) == IF c \in lcols THEN c \o "_y" ELSE c

MergedColumns(lcols, rcols) ==
    {LeftName(c, rcols) : c \in lcols} \cup {RightName(c, lcols) : c \in rcols}

MergedRow(left, right, pair) ==
    [n \in MergedColumns(left.columns, right.columns) |->
        IF \E c \in left.columns : LeftName(c, right.columns) = n
        THEN left.rows[pair[1]][CHOOSE c \in left.columns :
                                    LeftName(c, right.columns) = n]
        ELSE IF pair[2] = 0 THEN Null
        ELSE right.rows[pair[2]][CHOOSE c \in right.columns :
                                    RightName(c, left.columns) = n]]

\* pd.merge(left, right, left_on=..., right_on=..., how='left')
Merge(left, right, indexer) ==
    [columns |-> MergedColumns(left.columns, right.columns),
     rows |-> [k \in 1..Len(indexer) |-> MergedRow(left, right, indexer[k])]]

column_renames_1 ==
    [id_x |-> "submission_base_id", id_y |-> "comment_base_id",
     name |-> "submission_id", link_id |-> "comment_link_id",
     body |-> "comment_body", created_utc_x |-> "submission_created_utc",
     created_utc_y |-> "comment_created_utc",
     subreddit_x |-> "submission_subreddit", parent_id |-> "comment_parent_id",
     title |-> "submission_title", selftext |-> "submission_selftext",
     subreddit_y |-> "comment_subreddit"]

column_renames_2 ==
    [id_x |-> "comment_base_id", id_y |-> "submission_base_id",
     name |-> "submission_id", link_id |-> "comment_link_id",
     body |-> "comment_body", created_utc_x |-> "comment_created_utc",
     created_utc_y |-> "submission_created_utc",
     subreddit_x |-> "comment_subreddit", parent_id |-> "comment_parent_id",
     title |-> "submission_title", selftext |-> "submission_selftext",
     subreddit_y |-> "submission_subreddit"]

\* df.rename(columns=m, inplace=True)
NewName(m, c) == IF c \in DOMAIN m THEN m[c] ELSE c

RenameRow(row, m) ==
    [n \in {NewName(m, c) : c \in DOMAIN row} |->
        row[CHOOSE c \in DOMAIN row : NewName(m, c) = n]]

Rename(df, m) ==
    [columns |-> {NewName(m, c) : c \in df.columns},
     rows |-> [i \in 1..Len(df.rows) |-> RenameRow(df.rows[i], m)]]

\* pd.concat([a, b], ignore_index=True): the columns of both, by name.
Concat(a, b) ==
    LET cols == a.columns \cup b.columns
        Fill(row) == [c \in cols |-> IF c \in DOMAIN row THEN row[c] ELSE Null]
    IN  [columns |-> cols,
         rows |-> [i \in 1..Len(a.rows) |-> Fill(a.rows[i])]
                  \o [i \in 1..Len(b.rows) |-> Fill(b.rows[i])]]

\* A concatenation that is returned as it is.
KeepDuplicates(df) == df

\* df.drop_duplicates(): the first of every group of equal rows is kept.
DropDuplicates(df) ==
    [df EXCEPT !.rows =
        LET keep == SelectSeq([i \in 1..Len(df.rows) |-> i],
                     LAMBDA i : \A j \in 1..(i - 1) : df.rows[j] # df.rows[i])
        IN  [k \in 1..Len(keep) |-> df.rows[keep[k]]]]


\* Lines 93-99: merged_df_1, with the row pairs it was built from.
JoinA(all_subs, essure_subs, all_coms, essure_coms) ==
    LET l == JoinALeft(all_subs, essure_subs)
        r == JoinARight(all_coms, essure_coms)
        idx == LeftJoinIndexer(l.rows, r.rows, "name", "link_id", 1)
    IN  [indexer |-> idx, df |-> Merge(l, r, idx)]

\* Lines 102-108: merged_df_2, with the row pairs it was built from.
JoinB(all_subs, essure_subs, all_coms, essure_coms) ==
    LET l == JoinBLeft(all_coms, essure_coms)
        r == JoinBRight(all_subs, essure_subs)
        idx == LeftJoinIndexer(l.rows, r.rows, "link_id", "name", 1)
    IN  [indexer |-> idx, df |-> Merge(l, r, idx)]

\* Lines 142-147: rename both merges, concatenate, drop the duplicates.
FullFrame(m1, m2) ==
    DropDuplicates(Concat(Rename(m1, column_renames_1),
                          Rename(m2, column_renames_2)))

\* Lines 67-154 of process_reddit_data on the two decoded lists: the table
\* returned, or the exception raised.
ProcessRecords(sd, cd) ==
    LET s0 == GetColumns(DataFrame(sd), submissions_cols)
        c0 == GetColumns(DataFrame(cd), comments_cols)
    IN  IF s0.exc # "none" THEN [exc |-> s0.exc, df |-> EmptyFrame]
        ELSE IF c0.exc # "none" THEN [exc |-> c0.exc, df |-> EmptyFrame]
        ELSE
        LET sdf == ConvertCreated(s0.df)
            cdf == ConvertCreated(c0.df)
            es == FilterSubmissions(sdf)
            ec == FilterComments(cdf)
            m1 == JoinA(sdf, es, cdf, ec).df
            m2 == JoinB(sdf, es, cdf, ec).df
        IN  [exc |-> "none", df |-> FullFrame(m1, m2)]

\* process_reddit_data(submissions_file, comments_file): both archives are
\* read, then the lists are processed.
ProcessRedditData(sa, ca) ==
    LET rs == ReadZstToJson(sa)
        rc == ReadZstToJson(ca)
    IN  IF rs.pc = "raised" THEN [exc |-> rs.exc_out, df |-> EmptyFrame]
        ELSE IF rc.pc = "raised" THEN [exc |-> rc.exc_out, df |-> EmptyFrame]
        ELSE ProcessRecords(rs.ret, rc.ret)

\* --------------------------------------------------------- the driver loop

\* File names, as the text before the suffix and the suffix.
SubredditNames == <<"r1", "r2", "r3", "r4">>

SubmissionFileOf(subreddit) == [base |-> subreddit, suffix |-> "_submissions.zst"]

\* subreddit = submission_file.replace('_submissions.zst', '')
SubredditOf(f) ==
    IF f.suffix = "_submissions.zst" THEN f.base ELSE f.base \o f.suffix

\* comment_file = f"{subreddit}_comments.zst"
CommentFileOf(subreddit) == [base |-> subreddit, suffix |-> "_comments.zst"]

\* A loop whose call of process_reddit_data was wrapped in try/except
\* Exception would go on to the next pair.
DriverCatchesException(e) == IsSubclass(e, "Exception")

\* The loop body has no try statement: no exception is caught there.
DriverCatches(e) == FALSE

\* A loop keeping only the table of the pair just processed.
KeepLastOnly(all, discussions) == <<discussions>>

\* all_discussions.append(discussions)
AppendDiscussions(all, discussions) == Append(all, discussions)

\* pd.concat(all_discussions, ignore_index=True)
RECURSIVE ConcatAll(_)
ConcatAll(frames) ==
    IF Len(frames) = 1 THEN frames[1]
    ELSE Concat(frames[1], ConcatAll(Tail(frames)))

\* The archives the folders may hold.
DriverSubmissionArchives ==
    {[fault |-> "none", lines |-> <<"S1", "S2">>],
     [fault |-> "none", lines |-> <<"S3", "malformed">>],
     [fault |-> "none", lines |-> <<>>],
     [fault |-> "none", lines |-> <<"malformed">>],
     [fault |-> "corrupt", lines |-> <<"S1">>]}

DriverCommentArchives ==
    {[fault |-> "none", lines |-> <<"C1", "C2">>],
     [fault |-> "none", lines |-> <<"C3", "malformed">>],
     [fault |-> "none", lines |-> <<>>],
     [fault |-> "corrupt", lines |-> <<"C1">>]}

\* No file of that name in the folder.
Absent == [fault |-> "absent", lines |-> <<>>]

\* ----------------------------------------------------- actions: the reader

IdleRead ==
    /\ archive = [fault |-> "none", lines |-> <<>>]
    /\ rpc = "idle"
    /\ line_count = 0
    /\ data = <<>>
    /\ log = <<>>
    /\ ret = <<>>
    /\ exc_out = "none"

IdleExtract ==
    /\ submissions_data = <<>>
    /\ comments_data = <<>>
    /\ xpc = "idle"
    /\ submissions_df = EmptyFrame
    /\ comments_df = EmptyFrame
    /\ essure_submissions = EmptyFrame
    /\ essure_comments = EmptyFrame
    /\ indexer_1 = <<>>
    /\ merged_df_1 = EmptyFrame
    /\ indexer_2 = <<>>
    /\ merged_df_2 = EmptyFrame
    /\ full_df = EmptyFrame
    /\ xexc = "none"

IdleDriver ==
    /\ dir_contents = <<>>
    /\ submission_files = <<>>
    /\ comment_files = <<>>
    /\ di = 1
    /\ dpc = "idle"
    /\ all_discussions = <<>>
    /\ final_df = EmptyFrame
    /\ output_files = {}
    /\ dexc = "none"

SetR(r) ==
    /\ rpc' = r.pc
    /\ line_count' = r.line_count
    /\ data' = r.data
    /\ log' = r.log
    /\ ret' = r.ret
    /\ exc_out' = r.exc_out

OpenArchive ==
    /\ rpc = "start"
    /\ SetR(OpenStep(archive, RState))
    /\ UNCHANGED <<archive, xvars, dvars>>

ReadLine ==
    /\ rpc = "iter"
    /\ SetR(IterStep(archive, RState))
    /\ UNCHANGED <<archive, xvars, dvars>>

InitRead ==
    /\ archive \in Archives
    /\ rpc = "start"
    /\ line_count = 0
    /\ data = <<>>
    /\ log = <<>>
    /\ ret = <<>>
    /\ exc_out = "none"
    /\ IdleExtract
    /\ IdleDriver

NextRead == OpenArchive \/ ReadLine

SpecRead == InitRead /\ [][NextRead]_vars

\* ---------------------------------------------- properties: the reader

\* The archive opens, decompresses and decodes as UTF-8 text: it is an
\* archive of Len(lines) lines.
TextDecodes(a) ==
    /\ a.fault = "none"
    /\ \A k \in 1..Len(a.lines) : a.lines[k] # "badutf8"

\* The objects of the lines that parse, in the order of the lines.
RECURSIVE ParsedRecords(_)
ParsedRecords(lines) ==
    IF lines = <<>> THEN <<>>
    ELSE IF Head(lines) \in GoodLines
         THEN <<Dict(Head(lines))>> \o ParsedRecords(Tail(lines))
         ELSE ParsedRecords(Tail(lines))

FailedLineNumbers(lines) == {k \in 1..Len(lines) : lines[k] \notin GoodLines}

ReportedLineNumbers ==
    {log[i].n : i \in {j \in 1..Len(log) : log[j].kind = "json_error"}}

\* C1: for an archive of N lines of which M fail to parse, the records of
\* the N-M other lines are returned in line order, each failure is reported
\* with its 1-based line number, and a failure on one line neither discards
\* the records of earlier lines nor stops later lines from being parsed.
C1_EveryParsedLineReturned ==
    /\ (rpc = "iter" /\ TextDecodes(archive))
          => data = ParsedRecords(SubSeq(archive.lines, 1, line_count))
    /\ (rpc = "returned" /\ TextDecodes(archive))
          => /\ ret = ParsedRecords(archive.lines)
             /\ ReportedLineNumbers = FailedLineNumbers(archive.lines)

\* C7: no exception leaves read_zst_to_json, and a call on an archive that
\* cannot be opened or decompressed reports the error and returns the
\* empty list.
C7_NoExceptionLeavesReader ==
    /\ rpc # "raised"
    /\ exc_out = "none"
    /\ (rpc = "returned" /\ archive.fault # "none")
          => /\ ret = <<>>
             /\ \E i \in 1..Len(log) : log[i].kind = "file_error"

\* A corrupt archive holding lines has been read: the ZstdError was
\* reported and the empty list returned.
C7_Witness ==
    /\ rpc = "returned"
    /\ archive.fault = "corrupt"
    /\ Len(archive.lines) > 0
    /\ ret = <<>>
    /\ \E i \in 1..Len(log) : log[i].kind = "file_error" /\ log[i].exc = "ZstdError"

\* -------------------------------------------------- actions: the extractor

\* Lines 71-72.
ProjectFrames ==
    /\ xpc = "project"
    /\ LET s0 == GetColumns(DataFrame(submissions_data), submissions_cols)
           c0 == GetColumns(DataFrame(comments_data), comments_cols)
       IN  IF s0.exc # "none" \/ c0.exc # "none"
           THEN /\ xpc' = "raised"
                /\ xexc' = IF s0.exc # "none" THEN s0.exc ELSE c0.exc
                /\ UNCHANGED <<submissions_df, comments_df>>
           ELSE /\ xpc' = "convert"
                /\ submissions_df' = s0.df
                /\ comments_df' = c0.df
                /\ UNCHANGED xexc
    /\ UNCHANGED <<submissions_data, comments_data, essure_submissions,
                   essure_comments, indexer_1, merged_df_1, indexer_2,
                   merged_df_2, full_df, rvars, dvars>>

\* Lines 75-76.
ConvertTimestamps ==
    /\ xpc = "convert"
    /\ submissions_df' = ConvertCreated(submissions_df)
    /\ comments_df' = ConvertCreated(comments_df)
    /\ xpc' = "filter"
    /\ UNCHANGED <<submissions_data, comments_data, essure_submissions,
                   essure_comments, indexer_1, merged_df_1, indexer_2,
                   merged_df_2, full_df, xexc, rvars, dvars>>

\* Lines 79-90 (the assignment of lines 84-87 replaces that of 79-82).
FilterEssure ==
    /\ xpc = "filter"
    /\ essure_submissions' = FilterSubmissions(submissions_df)
    /\ essure_comments' = FilterComments(comments_df)
    /\ xpc' = "merge1"
    /\ UNCHANGED <<submissions_data, comments_data, submissions_df,
                   comments_df, indexer_1, merged_df_1, indexer_2,
                   merged_df_2, full_df, xexc, rvars, dvars>>

\* Lines 93-99.
MergeA ==
    /\ xpc = "merge1"
    /\ LET m == JoinA(submissions_df, essure_submissions,
                      comments_df, essure_comments)
       IN  /\ indexer_1' = m.indexer
           /\ merged_df_1' = m.df
    /\ xpc' = "merge2"
    /\ UNCHANGED <<submissions_data, comments_data, submissions_df,
                   comments_df, essure_submissions, essure_comments,
                   indexer_2, merged_df_2, full_df, xexc, rvars, dvars>>

\* Lines 102-108.
MergeB ==
    /\ xpc = "merge2"
    /\ LET m == JoinB(submissions_df, essure_submissions,
                      comments_df, essure_comments)
       IN  /\ indexer_2' = m.indexer
           /\ merged_df_2' = m.df
    /\ xpc' = "rename"
    /\ UNCHANGED <<submissions_data, comments_data, submissions_df,
                   comments_df, essure_submissions, essure_comments,
                   indexer_1, merged_df_1, full_df, xexc, rvars, dvars>>

\* Lines 142-154.
RenameConcat ==
    /\ xpc = "rename"
    /\ merged_df_1' = Rename(merged_df_1, column_renames_1)
    /\ merged_df_2' = Rename(merged_df_2, column_renames_2)
    /\ full_df' = FullFrame(merged_df_1, merged_df_2)
    /\ xpc' = "returned"
    /\ UNCHANGED <<submissions_data, comments_data, submissions_df,
                   comments_df, essure_submissions, essure_comments,
                   indexer_1, indexer_2, xexc, rvars, dvars>>

DictsOf(lines) == [i \in 1..Len(lines) |-> Dict(lines[i])]

InitExtract ==
    /\ IdleRead
    /\ IdleDriver
    /\ submissions_data \in {DictsOf(l) : l \in SeqsUpTo(SubmissionLines, MaxSubs)}
    /\ comments_data \in {DictsOf(l) : l \in SeqsUpTo(CommentLines, MaxComs)}
    /\ xpc = "project"
    /\ submissions_df = EmptyFrame
    /\ comments_df = EmptyFrame
    /\ essure_submissions = EmptyFrame
    /\ essure_comments = EmptyFrame
    /\ indexer_1 = <<>>
    /\ merged_df_1 = EmptyFrame
    /\ indexer_2 = <<>>
    /\ merged_df_2 = EmptyFrame
    /\ full_df = EmptyFrame
    /\ xexc = "none"

NextExtract ==
    \/ ProjectFrames
    \/ ConvertTimestamps
    \/ FilterEssure
    \/ MergeA
    \/ MergeB
    \/ RenameConcat

SpecExtract == InitExtract /\ [][NextExtract]_vars

\* ---------------------------------------------- properties: the extractor

\* The words of a text: its maximal runs of word pieces.
RECURSIVE WordsOf(_)
WordsOf(text) ==
    IF text = <<>> THEN <<>>
    ELSE IF Head(text) = " " THEN WordsOf(Tail(text))
    ELSE LET rest == WordsOf(Tail(text))
         IN  IF Len(text) > 1 /\ text[2] # " "
             THEN << <<Head(text)>> \o Head(rest) >> \o Tail(rest)
             ELSE << <<Head(text)>> >> \o rest

\* The value is a text one of whose words is Essure or essure.
MentionsEssure(v) ==
    /\ v # Null
    /\ \E k \in 1..Len(WordsOf(v)) : WordsOf(v)[k] \in {<<"Essure">>, <<"essure">>}

SubmissionMentions(s) == MentionsEssure(s.title) \/ MentionsEssure(s.selftext)
CommentMentions(c) == MentionsEssure(c.body)

\* The row of the returned table for submission s and comment c.
ExpectedRow(s, c) ==
    [submission_base_id |-> s.id, submission_id |-> s.name,
     submission_created_utc |-> s.created_utc, submission_title |-> s.title,
     submission_selftext |-> s.selftext, submission_subreddit |-> s.subreddit,
     comment_base_id |-> c.id, comment_subreddit |-> c.subreddit,
     comment_created_utc |-> c.created_utc, comment_body |-> c.body,
     comment_link_id |-> c.link_id, comment_parent_id |-> c.parent_id]

NoSubmission == [c \in submissions_cols |-> Null]
NoComment == [c \in comments_cols |-> Null]

InRows(row, df) == \E k \in 1..Len(df.rows) : df.rows[k] = row

\* The rows of the merge that come from left row i.
RowsOfLeft(indexer, i) == {p \in 1..Len(indexer) : indexer[p][1] = i}

\* C2: Join A is complete. Every submission that mentions the keyword is
\* joined with every comment whose link_id is its name, mentioning the
\* keyword or not: k >= 1 such comments give exactly k rows of Join A, one
\* per comment, no such comment gives exactly one row with the comment side
\* null, and each of these rows, with the fields of both, is in the table
\* returned.
C2_JoinAComplete ==
    xpc \in {"merge2", "rename", "returned"} =>
      /\ essure_submissions.rows = SelectSeq(submissions_df.rows, SubmissionMentions)
      /\ Len(merged_df_1.rows) = Len(indexer_1)
      /\ \A i \in 1..Len(essure_submissions.rows) :
           LET s == essure_submissions.rows[i]
               K == {j \in 1..Len(comments_df.rows) :
                       comments_df.rows[j].link_id = s.name}
               P == RowsOfLeft(indexer_1, i)
           IN  IF K = {}
               THEN /\ Cardinality(P) = 1
                    /\ \A p \in P : indexer_1[p][2] = 0
               ELSE /\ Cardinality(P) = Cardinality(K)
                    /\ \A j \in K :
                         Cardinality({p \in P : indexer_1[p][2] = j}) = 1
      /\ xpc = "returned" =>
           \A p \in 1..Len(indexer_1) :
             LET row == ExpectedRow(essure_submissions.rows[indexer_1[p][1]],
                                    IF indexer_1[p][2] = 0 THEN NoComment
                                    ELSE comments_df.rows[indexer_1[p][2]])
             IN  merged_df_1.rows[p] = row /\ InRows(row, full_df)

\* A table was returned for a matching submission with two comments, one of
\* them not mentioning the keyword, and a matching submission with none.
C2_Witness ==
    /\ xpc = "returned"
    /\ \E i \in 1..Len(essure_submissions.rows) :
         /\ Cardinality(RowsOfLeft(indexer_1, i)) = 2
         /\ \E p \in RowsOfLeft(indexer_1, i) :
              /\ indexer_1[p][2] # 0
              /\ ~CommentMentions(comments_df.rows[indexer_1[p][2]])
    /\ \E i \in 1..Len(essure_submissions.rows) :
         \E p \in RowsOfLeft(indexer_1, i) : indexer_1[p][2] = 0

\* C3: Join B. A comment that mentions the keyword and whose link_id is the
\* name of no submission gives exactly one row, with the submission side
\* null; one whose link_id is the name of exactly one submission gives
\* exactly one row, with the fields of that submission, matching or not.
C3_JoinBRows ==
    xpc \in {"rename", "returned"} =>
      /\ essure_comments.rows = SelectSeq(comments_df.rows, CommentMentions)
      /\ Len(merged_df_2.rows) = Len(indexer_2)
      /\ \A i \in 1..Len(essure_comments.rows) :
           LET c == essure_comments.rows[i]
               S == {j \in 1..Len(submissions_df.rows) :
                       submissions_df.rows[j].name = c.link_id}
               P == RowsOfLeft(indexer_2, i)
           IN  /\ S = {} =>
                    /\ Cardinality(P) = 1
                    /\ \A p \in P :
                         /\ indexer_2[p][2] = 0
                         /\ xpc = "returned" =>
                              merged_df_2.rows[p] = ExpectedRow(NoSubmission, c)
               /\ Cardinality(S) = 1 =>
                    /\ Cardinality(P) = 1
                    /\ \A p \in P :
                         /\ indexer_2[p][2] \in S
                         /\ xpc = "returned" =>
                              merged_df_2.rows[p] =
                                ExpectedRow(submissions_df.rows[indexer_2[p][2]], c)

\* A table was returned for a matching comment without a submission and a
\* matching comment whose only submission does not mention the keyword.
C3_Witness ==
    /\ xpc = "returned"
    /\ \E p \in 1..Len(indexer_2) : indexer_2[p][2] = 0
    /\ \E p \in 1..Len(indexer_2) :
         /\ indexer_2[p][2] # 0
         /\ ~SubmissionMentions(submissions_df.rows[indexer_2[p][2]])
         /\ Cardinality({j \in 1..Len(submissions_df.rows) :
                submissions_df.rows[j].name =
                  submissions_df.rows[indexer_2[p][2]].name}) = 1

\* C4: in every row of the table returned, the submission's title or
\* selftext mentions the keyword or the comment's body does.
C4_EveryRowMentionsKeyword ==
    xpc = "returned" =>
      \A k \in 1..Len(full_df.rows) :
        LET row == full_df.rows[k]
        IN  \/ MentionsEssure(row.submission_title)
            \/ MentionsEssure(row.submission_selftext)
            \/ MentionsEssure(row.comment_body)

\* The table returned has a row that is there for its comment only and a
\* row that is there for its submission only.
C4_Witness ==
    /\ xpc = "returned"
    /\ \E k \in 1..Len(full_df.rows) :
         /\ ~MentionsEssure(full_df.rows[k].submission_title)
         /\ ~MentionsEssure(full_df.rows[k].submission_selftext)
         /\ full_df.rows[k].submission_base_id # Null
    /\ \E k \in 1..Len(full_df.rows) :
         /\ ~MentionsEssure(full_df.rows[k].comment_body)
         /\ full_df.rows[k].comment_base_id # Null

\* C5: the table returned has no two equal rows. A matching submission and
\* a matching comment of it give the same row, in the same columns, in
\* Join A and in Join B, and the table holds it once.
C5_NoDuplicateRows ==
    xpc = "returned" =>
      /\ \A i, j \in 1..Len(full_df.rows) :
           i # j => full_df.rows[i] # full_df.rows[j]
      /\ merged_df_1.columns = merged_df_2.columns
      /\ \A i \in 1..Len(essure_submissions.rows) :
           \A j \in 1..Len(essure_comments.rows) :
             LET s == essure_submissions.rows[i]
                 c == essure_comments.rows[j]
                 row == ExpectedRow(s, c)
             IN  c.link_id = s.name =>
                   /\ InRows(row, merged_df_1)
                   /\ InRows(row, merged_df_2)
                   /\ Cardinality({k \in 1..Len(full_df.rows) :
                                     full_df.rows[k] = row}) = 1

\* A table was returned in which a row of Join A and a row of Join B were
\* the same row.
C5_Witness ==
    /\ xpc = "returned"
    /\ \E i \in 1..Len(essure_submissions.rows) :
         \E j \in 1..Len(essure_comments.rows) :
           essure_comments.rows[j].link_id = essure_submissions.rows[i].name
    /\ Len(full_df.rows) < Len(merged_df_1.rows) + Len(merged_df_2.rows)

ColumnAbsent(records, cols) ==
    \E c \in cols : \A i \in 1..Len(records) : c \notin DOMAIN records[i]

\* Some record lacks a required field.
SomeRecordLacks(records, cols) ==
    \E i \in 1..Len(records) : \E c \in cols : c \notin DOMAIN records[i]

InitDriver ==
    /\ IdleRead
    /\ IdleExtract
    /\ \E n \in 1..MaxPairs :
         \E subs \in [1..n -> DriverSubmissionArchives],
            coms \in [1..n -> DriverCommentArchives \cup {Absent}] :
           /\ submission_files = [i \in 1..n |-> SubmissionFileOf(SubredditNames[i])]
           /\ comment_files = {CommentFileOf(SubredditNames[i]) :
                                 i \in {j \in 1..n : coms[j] # Absent}}
           /\ dir_contents =
                [f \in {SubmissionFileOf(SubredditNames[i]) : i \in 1..n}
                       \cup {CommentFileOf(SubredditNames[i]) : i \in 1..n} |->
                    LET i == CHOOSE j \in 1..n : SubredditNames[j] = f.base
                    IN  IF f.suffix = "_submissions.zst" THEN subs[i] ELSE coms[i]]
    /\ di = 1
    /\ dpc = "loop"
    /\ all_discussions = <<>>
    /\ final_df = EmptyFrame
    /\ output_files = {}
    /\ dexc = "none"

\* The comment file the loop looks for at position i.
CommentFileAt(i) == CommentFileOf(SubredditOf(submission_files[i]))

\* Line 172: if comment_file in comment_files
Paired(i) == CommentFileAt(i) \in comment_files

\* Line 177 at position i: what process_reddit_data returns or raises.
DiscussionsAt(i) ==
    ProcessRedditData(dir_contents[submission_files[i]],
                      dir_contents[CommentFileAt(i)])

\* Lines 166-172 for a submissions file without a comments file.
SkipUnpaired ==
    /\ dpc = "loop"
    /\ di <= Len(submission_files)
    /\ ~Paired(di)
    /\ di' = di + 1
    /\ UNCHANGED <<dir_contents, submission_files, comment_files, dpc,
                   all_discussions, final_df, output_files, dexc, rvars, xvars>>

\* Lines 166-178 for a pair whose processing returns a table.
ProcessPair ==
    /\ dpc = "loop"
    /\ di <= Len(submission_files)
    /\ Paired(di)
    /\ DiscussionsAt(di).exc = "none"
    /\ all_discussions' = AppendDiscussions(all_discussions, DiscussionsAt(di).df)
    /\ di' = di + 1
    /\ UNCHANGED <<dir_contents, submission_files, comment_files, dpc,
                   final_df, output_files, dexc, rvars, xvars>>

\* Lines 166-177 for a pair whose processing raises: the exception leaves
\* the loop and the script.
ProcessPairRaises ==
    /\ dpc = "loop"
    /\ di <= Len(submission_files)
    /\ Paired(di)
    /\ DiscussionsAt(di).exc # "none"
    /\ IF DriverCatches(DiscussionsAt(di).exc)
       THEN /\ di' = di + 1
            /\ UNCHANGED <<dpc, dexc>>
       ELSE /\ dpc' = "aborted"
            /\ dexc' = DiscussionsAt(di).exc
            /\ UNCHANGED di
    /\ UNCHANGED <<dir_contents, submission_files, comment_files,
                   all_discussions, final_df, output_files, rvars, xvars>>

\* Lines 181-191: the tables are combined, if there is any; nothing is saved
\* (the to_csv call is commented out).
CombineResults ==
    /\ dpc = "loop"
    /\ di > Len(submission_files)
    /\ final_df' = IF all_discussions # <<>>
                   THEN DropDuplicates(ConcatAll(all_discussions))
                   ELSE final_df
    /\ dpc' = "done"
    /\ UNCHANGED <<dir_contents, submission_files, comment_files, di,
                   all_discussions, output_files, dexc, rvars, xvars>>

NextDriver ==
    \/ SkipUnpaired
    \/ ProcessPair
    \/ ProcessPairRaises
    \/ CombineResults

SpecDriver == InitDriver /\ [][NextDriver]_vars

\* ---------------------------------------------- properties: the driver

\* The file the table of a subreddit would be saved to.
OutputFileOf(subreddit) == [base |-> subreddit, suffix |-> "_essure_discussions.csv"]

\* The pairs among the first k submission files.
PairsUpTo(k) == {i \in 1..k : Paired(i)}

EmptyDecode(i) ==
    /\ Paired(i)
    /\ \/ ReadZstToJson(dir_contents[submission_files[i]]).ret = <<>>
       \/ ReadZstToJson(dir_contents[CommentFileAt(i)]).ret = <<>>

\* C10: for a pair one of whose decodes gives no record, process_reddit_data
\* returns no table but raises at the projection, and the script ends
\* there: the loop never goes past the pair and no combined table is made.
C10_EmptyDecodeEndsRun ==
    \A k \in 1..Len(submission_files) :
      EmptyDecode(k) =>
        /\ DiscussionsAt(k).exc = "KeyError"
        /\ di <= k
        /\ dpc \in {"loop", "aborted"}
        /\ final_df = EmptyFrame
        /\ (di = k /\ dpc = "aborted") => dexc = "KeyError"

\* The script has ended at a first pair whose comments archive could not be
\* decompressed, with a second pair never taken up.
C10_Witness ==
    /\ dpc = "aborted"
    /\ dexc = "KeyError"
    /\ di = 1
    /\ Len(submission_files) >= 2
    /\ Paired(2)
    /\ dir_contents[CommentFileAt(1)].fault = "corrupt"
    /\ ReadZstToJson(dir_contents[submission_files[1]]).ret # <<>>

=============================================================================
